---- MODULE Spec2Model ----
(***************************************************************************)
(* pingmo: the ping latency monitor of src/monitor.py (PingMonitor).       *)
(*                                                                         *)
(* The main thread runs PingMonitor.monitor: timestamp, ping_once, append, *)
(* sleep.  SIGINT runs PingMonitor.signal_handler on the main thread's     *)
(* stack, between two bytecodes of whatever is running, the handler itself *)
(* included; sys.exit(0) raises SystemExit through every frame below it.   *)
(*                                                                         *)
(* Latencies are milliseconds.  The inputs are whole numbers; every        *)
(* derived statistic is kept exact, as a fraction [num, den], and every    *)
(* comparison the code makes on floats is made on the exact values.        *)
(***************************************************************************)
EXTENDS Integers, Sequences, FiniteSets, TLC

\* ------------------------------------------------------------------ bounds
MaxTicks == 2        \* probes one run starts
MaxClock == 1        \* readings of datetime.now() range over 0..MaxClock
MaxSignals == 2      \* SIGINT deliveries in one run
MaxLow == 12         \* low latencies heading a log of InitAnalysis
MaxTail == 11        \* high latencies ending a log of InitAnalysis
MaxShort == 3        \* length of the short logs of InitStats
MaxFloatLog == 3     \* length of the logs of InitFloat

\* ------------------------------------------------------- program constants
WarnThreshold == 5   \* consecutive timeouts from which the warning is printed
KeepLast == 10       \* spike values kept in the report

Target == "1.1.1.1"
IntervalSeconds == 1
MantissaBits == 53   \* significant bits of a Python float (binary64)
LimbBits == 10       \* a mantissa is kept as digits of LimbBits bits
LimbBase == 1024     \* 2^LimbBits

\* Optional[float]: None is the empty sequence, a value v is <<v>>.
None == << >>
Some(v) == << v >>
IsNone(o) == o = << >>
ValueOf(o) == o[1]

VARIABLES
    pc,          \* where the main thread is in monitor(): check, probe, record,
                 \* sleep; exited after sys.exit(0); crashed after an uncaught error
    running,     \* self.running
    results,     \* self.results
    start_time,  \* self.start_time
    timestamp,   \* monitor's local timestamp
    latency,     \* monitor's local latency, the value ping_once returned
    consecutive_failures,   \* monitor's local counter
    warned,      \* whether the last recorded tick printed the warning
    now,         \* the wall clock datetime.now() reads
    hpc,         \* where the innermost signal_handler frame is: none, save, write, exit
    pending,     \* the output_data the innermost save_results is about to write
    raised,      \* the exception that ended the process, "none" if none
    file,        \* content of output_file: << >> if never written, else <<document>>
    summaries,   \* every summary save_results has built, in order
    handed,      \* len(self.results) at each entry of save_results, in order
    writes,      \* times save_results opened the output file for writing
    ioErrors,    \* times the write raised IOError (caught, reported)
    signals,     \* SIGINT deliveries so far
    stopLen,     \* len(self.results) when the first SIGINT was delivered, None before
    stopProbes,  \* probes started when the first SIGINT was delivered
    probes,      \* ping_once calls started
    sleeps,      \* time.sleep calls started
    ticks        \* loop iterations completed (their sleep returned)

vars == << pc, running, results, start_time, timestamp, latency,
           consecutive_failures, warned, now, hpc, pending, raised, file,
           summaries, handed, writes, ioErrors, signals, stopLen, stopProbes,
           probes, sleeps, ticks >>

mainVars == << pc, results, timestamp, latency, consecutive_failures, warned,
               raised, probes, sleeps, ticks >>
saveVars == << pending, file, summaries, handed, writes, ioErrors >>
stopVars == << signals, stopLen, stopProbes >>

\* --------------------------------------------------------------- ping_once
\* What one run of the ping command can come to.  "completed" carries the
\* exit code and the text the regex time[=<]([0-9\.]+) captured in stdout
\* (<< >> when it matches nothing), as a sequence of characters.
Digits == << "0", "1", "2", "3", "4", "5", "6", "7", "8", "9" >>

IsDigit(c) == \E i \in 1..10 : Digits[i] = c
DigitValue(c) == (CHOOSE i \in 1..10 : Digits[i] = c) - 1

Captures ==
    { << "0" >>,                       \* "time=0 ms"
      << "2", "0" >>,                  \* "time=20 ms"
      << "2", "5", "0", ".", "0" >>,   \* "time=250.0 ms"
      << "." >>,                       \* "time=. ms": matches, is no number
      << "1", ".", "2", ".", "3" >> }  \* "time=1.2.3": matches, is no number

ProbeOutcomes ==
    [ kind : {"completed"}, returncode : {0}, capture : Captures \cup {<< >>} ]
    \cup [ kind : {"completed"}, returncode : {1}, capture : {<< >>, << "2", "0" >>} ]
    \cup [ kind : {"TimeoutExpired", "SubprocessError", "OSError"},
           returncode : {0}, capture : {<< >>} ]

\* float(s) for s over [0-9.]: a number iff s has a digit and at most one dot.
DotCount(s) == Cardinality({ i \in 1..Len(s) : s[i] = "." })
DigitCount(s) == Cardinality({ i \in 1..Len(s) : IsDigit(s[i]) })
IsFloatLiteral(s) == DigitCount(s) >= 1 /\ DotCount(s) <= 1

RECURSIVE DecimalValue(_)
DecimalValue(s) ==
    IF s = << >> THEN 0
    ELSE 10 * DecimalValue(SubSeq(s, 1, Len(s) - 1)) + DigitValue(s[Len(s)])

\* The whole part of the literal; the captures of the model have no fraction
\* other than zero.
IntegerPart(s) ==
    IF DotCount(s) = 0 THEN s
    ELSE SubSeq(s, 1, (CHOOSE i \in 1..Len(s) : s[i] = ".") - 1)
FloatOf(s) == DecimalValue(IntegerPart(s))

\* ping_once: [raises, value].  TimeoutExpired and SubprocessError are caught;
\* OSError (no ping executable) is not a SubprocessError; float() raises
\* ValueError outside nothing that catches it.
PingOnce(o) ==
    IF o.kind = "OSError" THEN [ raises |-> "OSError", value |-> None ]
    ELSE IF o.kind \in {"TimeoutExpired", "SubprocessError"}
    THEN [ raises |-> "none", value |-> None ]
    ELSE IF o.returncode = 0 /\ o.capture # << >>
    THEN IF IsFloatLiteral(o.capture)
         THEN [ raises |-> "none", value |-> Some(FloatOf(o.capture)) ]
         ELSE [ raises |-> "ValueError", value |-> None ]
    ELSE [ raises |-> "none", value |-> None ]

\* ------------------------------------------------------------ Python floats
\* A latency is a Python float, an IEEE 754 binary64.  A float is [m, e], the
\* number m * 2^e with 2^52 <= m < 2^53 (m = 0 for zero), and m is kept as
\* its digits in base LimbBase, lowest first, without leading zeros.
BigOf(k) ==
    IF k = 0 THEN << >>
    ELSE IF k < LimbBase THEN << k >>
    ELSE IF k < LimbBase * LimbBase THEN << k % LimbBase, k \div LimbBase >>
    ELSE << k % LimbBase, (k \div LimbBase) % LimbBase,
            k \div (LimbBase * LimbBase) >>

BigNorm(a) ==
    LET used == { i \in 1..Len(a) : a[i] # 0 }
    IN  IF used = {} THEN << >>
        ELSE SubSeq(a, 1, CHOOSE i \in used : \A j \in used : j <= i)

BigLimb(a, i) == IF i <= Len(a) THEN a[i] ELSE 0

\* carry into digit i of a + b
RECURSIVE AddCarry(_, _, _)
AddCarry(a, b, i) ==
    IF i = 1 THEN 0
    ELSE (BigLimb(a, i - 1) + BigLimb(b, i - 1) + AddCarry(a, b, i - 1)) \div LimbBase

BigAdd(a, b) ==
    LET n == (IF Len(a) > Len(b) THEN Len(a) ELSE Len(b)) + 1
    IN  BigNorm([ i \in 1..n |->
                    (BigLimb(a, i) + BigLimb(b, i) + AddCarry(a, b, i)) % LimbBase ])

\* carry into digit i of a * k, for 0 <= k <= LimbBase
RECURSIVE MulCarry(_, _, _)
MulCarry(a, k, i) ==
    IF i = 1 THEN 0
    ELSE (BigLimb(a, i - 1) * k + MulCarry(a, k, i - 1)) \div LimbBase

BigMulSmall(a, k) ==
    BigNorm([ i \in 1..(Len(a) + 2) |->
                (BigLimb(a, i) * k + MulCarry(a, k, i)) % LimbBase ])

\* a * 2^k
BigShift(a, k) ==
    IF a = << >> THEN << >>
    ELSE [ i \in 1..(k \div LimbBits) |-> 0 ] \o BigMulSmall(a, 2 ^ (k % LimbBits))

\* remainder left after dividing digits i..Len(a) of a by d
RECURSIVE DivRem(_, _, _)
DivRem(a, d, i) ==
    IF i > Len(a) THEN 0
    ELSE (DivRem(a, d, i + 1) * LimbBase + a[i]) % d

\* floor(a / d) and a mod d, for 0 < d < 2^21
BigDivSmall(a, d) ==
    [ q |-> BigNorm([ i \in 1..Len(a) |->
                        (DivRem(a, d, i + 1) * LimbBase + a[i]) \div d ]),
      r |-> DivRem(a, d, 1) ]

BigLess(a, b) ==
    \/ Len(a) < Len(b)
    \/ /\ Len(a) = Len(b)
       /\ \E i \in 1..Len(a) :
            /\ a[i] < b[i]
            /\ \A j \in (i + 1)..Len(a) : a[j] = b[j]

BigIsOdd(a) == a # << >> /\ a[1] % 2 = 1

SmallBitLen(k) == CHOOSE b \in 0..31 : (b = 0 \/ 2 ^ (b - 1) <= k) /\ (b = 31 \/ k < 2 ^ b)

BitLen(a) == IF a = << >> THEN 0 ELSE LimbBits * (Len(a) - 1) + SmallBitLen(a[Len(a)])

Zero == [ m |-> << >>, e |-> 0 ]

\* The float nearest to num * 2^e / den, ties to the even mantissa: the
\* rounding every float operation of the code ends with.
RoundNearestEven(num, e, den) ==
    IF num = << >> THEN Zero
    ELSE
    LET k0 == MantissaBits - BitLen(num) + SmallBitLen(den)
        Scaled(k) ==
            IF k >= 0 THEN BigDivSmall(BigShift(num, k), den)
            ELSE BigDivSmall(num, den * 2 ^ (0 - k))
        Divisor(k) == IF k >= 0 THEN den ELSE den * 2 ^ (0 - k)
        k == CHOOSE j \in (k0 - 2)..k0 : BitLen(Scaled(j).q) = MantissaBits
        qr == Scaled(k)
        up == \/ 2 * qr.r > Divisor(k)
              \/ 2 * qr.r = Divisor(k) /\ BigIsOdd(qr.q)
        m == IF up THEN BigAdd(qr.q, BigOf(1)) ELSE qr.q
    IN  IF BitLen(m) > MantissaBits
        THEN [ m |-> BigDivSmall(m, 2).q, e |-> e - k + 1 ]
        ELSE [ m |-> m, e |-> e - k ]

\* float(s) for a literal s of digits with at most one dot
DigitsOf(s) == SelectSeq(s, IsDigit)
FractionDigits(s) ==
    IF DotCount(s) = 0 THEN 0
    ELSE Len(s) - (CHOOSE i \in 1..Len(s) : s[i] = ".")

FloatLiteral(s) ==
    RoundNearestEven(BigOf(DecimalValue(DigitsOf(s))), 0, 10 ^ FractionDigits(s))

\* x + y
FloatAdd(x, y) ==
    IF x.m = << >> THEN y
    ELSE IF y.m = << >> THEN x
    ELSE LET e == IF x.e < y.e THEN x.e ELSE y.e
         IN  RoundNearestEven(BigAdd(BigShift(x.m, x.e - e), BigShift(y.m, y.e - e)),
                              e, 1)

\* x / n for an int n > 0
FloatDivInt(x, n) == RoundNearestEven(x.m, x.e, n)

\* x < y and x <= y for floats that are not negative
FloatLess(x, y) ==
    IF y.m = << >> THEN FALSE
    ELSE IF x.m = << >> THEN TRUE
    ELSE LET e == IF x.e < y.e THEN x.e ELSE y.e
         IN  BigLess(BigShift(x.m, x.e - e), BigShift(y.m, y.e - e))

FloatLeq(x, y) == ~FloatLess(y, x)

\* ----------------------------------------------------------------- monitor
\* The observation monitor() appends for one tick.
ObservationTruthy(ts, lat) ==
    IF ~IsNone(lat) /\ ValueOf(lat) # 0
    THEN [ timestamp |-> ts, target |-> Target, latency_ms |-> lat,
           status |-> "success" ]
    ELSE [ timestamp |-> ts, target |-> Target, latency_ms |-> lat,
           status |-> "timeout" ]

Observation(ts, lat) ==
    IF ~IsNone(lat)
    THEN [ timestamp |-> ts, target |-> Target, latency_ms |-> lat,
           status |-> "success" ]
    ELSE [ timestamp |-> ts, target |-> Target, latency_ms |-> None,
           status |-> "timeout" ]

AppendSkippingTimeouts(log, ts, lat) ==
    IF IsNone(lat) THEN log ELSE Append(log, Observation(ts, lat))

AppendObservationFront(log, ts, lat) == << Observation(ts, lat) >> \o log

AppendObservation(log, ts, lat) == Append(log, Observation(ts, lat))

NextFailuresNoReset(count, lat) == IF ~IsNone(lat) THEN count ELSE count + 1

NextFailures(count, lat) == IF ~IsNone(lat) THEN 0 ELSE count + 1

\* What follows the if/else of the loop body: time.sleep(self.interval),
\* whatever the probe returned.
StepAfterAppendRetry(lat) == IF IsNone(lat) THEN "check" ELSE "sleep"

StepAfterAppend(lat) == "sleep"

\* The number of ticks explored: MaxTicks, and WarnThreshold more while every
\* observation so far is a timeout, so that the warning is reached.
OnlyTimeouts(log) == \A i \in 1..Len(log) : log[i].status = "timeout"

TickBound(log) == IF OnlyTimeouts(log) THEN WarnThreshold + MaxTicks ELSE MaxTicks

Alive == pc \notin {"exited", "crashed"}
InHandler == hpc # "none"

\* while self.running: timestamp = datetime.now().isoformat(); ping_once() is
\* called.  The handler never returns, so the main thread never reads
\* running = False.
LoopCheck ==
    /\ pc = "check" /\ ~InHandler /\ running
    /\ probes < TickBound(results)
    /\ timestamp' = now
    /\ probes' = probes + 1
    /\ pc' = "probe"
    /\ UNCHANGED << running, results, start_time, latency, consecutive_failures,
                    warned, now, hpc, raised, sleeps, ticks >>
    /\ UNCHANGED saveVars /\ UNCHANGED stopVars

\* ping_once returns, or raises through monitor() and main().
ProbeReturn ==
    /\ pc = "probe" /\ ~InHandler
    /\ \E o \in ProbeOutcomes :
         LET r == PingOnce(o) IN
         IF r.raises = "none"
         THEN /\ latency' = r.value
              /\ pc' = "record"
              /\ UNCHANGED raised
         ELSE /\ raised' = r.raises
              /\ pc' = "crashed"
              /\ UNCHANGED latency
    /\ UNCHANGED << running, results, start_time, timestamp, consecutive_failures,
                    warned, now, hpc, probes, sleeps, ticks >>
    /\ UNCHANGED saveVars /\ UNCHANGED stopVars

\* The if/else of the loop body up to the call of time.sleep.
Record ==
    /\ pc = "record" /\ ~InHandler
    /\ results' = AppendObservation(results, timestamp, latency)
    /\ consecutive_failures' = NextFailures(consecutive_failures, latency)
    /\ warned' = (IsNone(latency) /\ consecutive_failures' >= WarnThreshold)
    /\ pc' = StepAfterAppend(latency)
    /\ sleeps' = IF pc' = "sleep" THEN sleeps + 1 ELSE sleeps
    /\ UNCHANGED << running, start_time, timestamp, latency, now, hpc, raised,
                    probes, ticks >>
    /\ UNCHANGED saveVars /\ UNCHANGED stopVars

\* time.sleep(self.interval) returns.
SleepDone ==
    /\ pc = "sleep" /\ ~InHandler
    /\ ticks' = ticks + 1
    /\ pc' = "check"
    /\ UNCHANGED << running, results, start_time, timestamp, latency,
                    consecutive_failures, warned, now, hpc, raised, probes, sleeps >>
    /\ UNCHANGED saveVars /\ UNCHANGED stopVars

\* The wall clock moves on.  It is read at two places only, the timestamp of
\* a tick and monitoring_ended in save_results, so it is stepped only where
\* the next step of the process reads it.
ClockTick ==
    /\ Alive
    /\ (pc = "check" /\ ~InHandler) \/ hpc = "save"
    /\ now < MaxClock
    /\ now' = now + 1
    /\ UNCHANGED << running, start_time, hpc >>
    /\ UNCHANGED mainVars /\ UNCHANGED saveVars /\ UNCHANGED stopVars

\* ------------------------------------------------------------ save_results
Frac(a, b) == [ num |-> a, den |-> b ]

RECURSIVE Sum(_)
Sum(s) == IF s = << >> THEN 0 ELSE s[1] + Sum(Tail(s))

RECURSIVE SumSq(_)
SumSq(s) == IF s = << >> THEN 0 ELSE s[1] * s[1] + SumSq(Tail(s))

\* sorted(): the values in ascending order.  The value at place i is the one
\* with fewer than i values below it and at least i values not above it.
Sorted(s) ==
    [ i \in 1..Len(s) |->
        CHOOSE v \in { s[j] : j \in 1..Len(s) } :
            /\ Cardinality({ j \in 1..Len(s) : s[j] < v }) < i
            /\ i <= Cardinality({ j \in 1..Len(s) : s[j] <= v }) ]

Min(s) == CHOOSE x \in { s[i] : i \in 1..Len(s) } : \A j \in 1..Len(s) : x <= s[j]
Max(s) == CHOOSE x \in { s[i] : i \in 1..Len(s) } : \A j \in 1..Len(s) : x >= s[j]

\* r["status"] == "success"
IsSuccessTruthy(r) == r.status = "success" /\ ValueOf(r.latency_ms) # 0
IsSuccess(r) == r.status = "success"

SuccessfulPings(log) == SelectSeq(log, IsSuccess)

LatenciesOf(log) ==
    LET ok == SuccessfulPings(log)
    IN  [ i \in 1..Len(ok) |-> ValueOf(ok[i].latency_ms) ]

\* len(successful_pings) / len(self.results) * 100 if self.results else 0
SuccessRate(log) ==
    IF log # << >> THEN Frac(Len(SuccessfulPings(log)) * 100, Len(log))
    ELSE Frac(0, 1)

\* if latencies:
HasDistributionAlways(lat) == TRUE
HasDistributionSeveral(lat) == Len(lat) > 1
HasDistribution(lat) == lat # << >>

MedianUpperMiddle(sorted) == Frac(sorted[(Len(sorted) \div 2) + 1], 1)

\* sorted_latencies[n//2] if n % 2 == 1 else (s[n//2-1] + s[n//2]) / 2
\* (Python indexes from 0, a sequence from 1.)
Median(sorted) ==
    LET n == Len(sorted)
    IN  IF n % 2 = 1 THEN Frac(sorted[(n \div 2) + 1], 1)
        ELSE Frac(sorted[n \div 2] + sorted[(n \div 2) + 1], 2)

PercentileLast(sorted, hundredths) ==
    IF Len(sorted) > 0 THEN sorted[Len(sorted)] ELSE 0

\* sorted_latencies[int(p * n)] if n > 0 else 0, for p = hundredths / 100
Percentile(sorted, hundredths) ==
    LET n == Len(sorted)
    IN  IF n > 0 THEN sorted[((hundredths * n) \div 100) + 1] ELSE 0

\* sum((x - avg) ** 2 for x in latencies) / n, which is (n*sum(x^2) - S^2) / n^2
Variance(lat) ==
    LET n == Len(lat)
        S == Sum(lat)
    IN  Frac(n * SumSq(lat) - S * S, n * n)

\* x > avg_latency + k * std_dev, decided on the exact values:
\* n*x - S > 0 and (n*x - S)^2 > k^2 * (n*sum(x^2) - S^2).
AboveSigma(x, k, lat) ==
    LET n == Len(lat)
        S == Sum(lat)
        d == n * x - S
    IN  d > 0 /\ d * d > k * k * (n * SumSq(lat) - S * S)

\* x > t for a threshold t kept as a fraction
AboveFrac(x, t) == x * t.den > t.num

IqrThresholdLowerFence(lat) ==
    LET sorted == Sorted(lat)
        n == Len(lat)
        q1 == sorted[(n \div 4) + 1]
        q3 == sorted[((3 * n) \div 4) + 1]
    IN  Frac(2 * q1 - 3 * (q3 - q1), 2)

\* q3 + 1.5 * (q3 - q1), with q1 = sorted[n//4], q3 = sorted[3*n//4]
IqrThreshold(lat) ==
    LET sorted == Sorted(lat)
        n == Len(lat)
        q1 == sorted[(n \div 4) + 1]
        q3 == sorted[((3 * n) \div 4) + 1]
    IN  Frac(2 * q3 + 3 * (q3 - q1), 2)

\* median_latency * 3
MedianThreshold(median) == Frac(3 * median.num, median.den)

\* spikes if len(spikes) <= 10 else spikes[-10:]
KeepValuesLargest(spikes) ==
    LET s == Sorted(spikes)
    IN  IF Len(s) <= KeepLast THEN spikes
        ELSE SubSeq(s, Len(s) - KeepLast + 1, Len(s))

KeepValuesFirst(spikes) ==
    IF Len(spikes) <= KeepLast THEN spikes ELSE SubSeq(spikes, 1, KeepLast)

KeepValues(spikes) ==
    IF Len(spikes) <= KeepLast THEN spikes
    ELSE SubSeq(spikes, Len(spikes) - KeepLast + 1, Len(spikes))

\* {"count": len(spikes), "percentage": len(spikes) / len(latencies) * 100,
\*  "values": ...}
SpikeEntry(spikes, lat) ==
    [ count |-> Len(spikes),
      percentage |-> Frac(Len(spikes) * 100, Len(lat)),
      values |-> KeepValues(spikes) ]

OutlierEntry(threshold, spikes, lat) ==
    [ threshold_ms |-> threshold,
      count |-> Len(spikes),
      percentage |-> Frac(Len(spikes) * 100, Len(lat)),
      values |-> KeepValues(spikes) ]

BucketEntry(count, lat) ==
    [ count |-> count, percentage |-> Frac(count * 100, Len(lat)) ]

\* thresholds = [50, 100, 150, 200, 300, 500] and the keys f"spikes_above_{t}ms"
Thresholds == << 50, 100, 150, 200, 300, 500 >>
ThresholdKeys ==
    << "spikes_above_50ms", "spikes_above_100ms", "spikes_above_150ms",
       "spikes_above_200ms", "spikes_above_300ms", "spikes_above_500ms" >>

\* [x for x in latencies if x > threshold]
SpikesAtLeast(lat, threshold) == SelectSeq(lat, LAMBDA x : x >= threshold)
SpikesAbove(lat, threshold) == SelectSeq(lat, LAMBDA x : x > threshold)

OutliersSigma(lat, k) == SelectSeq(lat, LAMBDA x : AboveSigma(x, k, lat))
OutliersFrac(lat, t) == SelectSeq(lat, LAMBDA x : AboveFrac(x, t))

\* len([x for x in latencies if lo < x <= hi])
CountInLowerClosed(lat, lo, hi) == Len(SelectSeq(lat, LAMBDA x : lo <= x /\ x < hi))
CountIn(lat, lo, hi) == Len(SelectSeq(lat, LAMBDA x : lo < x /\ x <= hi))

FixedThresholdStats(lat) ==
    [ key \in { ThresholdKeys[i] : i \in 1..Len(Thresholds) } |->
        LET i == CHOOSE j \in 1..Len(Thresholds) : ThresholdKeys[j] = key
        IN  SpikeEntry(SpikesAbove(lat, Thresholds[i]), lat) ]

StatisticalOutliers(lat, avg, median, variance) ==
    [ two_std_dev |->
        OutlierEntry([ avg |-> avg, sigmas |-> 2, variance |-> variance ],
                     OutliersSigma(lat, 2), lat),
      three_std_dev |->
        OutlierEntry([ avg |-> avg, sigmas |-> 3, variance |-> variance ],
                     OutliersSigma(lat, 3), lat),
      iqr_method |->
        OutlierEntry(IqrThreshold(lat), OutliersFrac(lat, IqrThreshold(lat)), lat),
      median_3x |->
        OutlierEntry(MedianThreshold(median),
                     OutliersFrac(lat, MedianThreshold(median)), lat) ]

VideoConferencingQuality(lat) ==
    [ excellent_0_20ms |-> BucketEntry(Len(SelectSeq(lat, LAMBDA x : x <= 20)), lat),
      good_20_50ms |-> BucketEntry(CountIn(lat, 20, 50), lat),
      acceptable_50_100ms |-> BucketEntry(CountIn(lat, 50, 100), lat),
      poor_100_200ms |-> BucketEntry(CountIn(lat, 100, 200), lat),
      very_poor_above_200ms |-> BucketEntry(Len(SpikesAbove(lat, 200)), lat) ]

\* calculate_spike_statistics(latencies, avg_latency, median_latency, std_dev)
CalculateSpikeStatistics(lat, avg, median, variance) ==
    FixedThresholdStats(lat)
    @@ [ statistical_outliers |-> StatisticalOutliers(lat, avg, median, variance),
         video_conferencing_quality |-> VideoConferencingQuality(lat) ]

\* The keys summary.update adds when there are latencies; std_dev_ms is kept as
\* its square.
Distribution(lat) ==
    LET sorted == Sorted(lat)
        n == Len(lat)
        avg == Frac(Sum(lat), n)
        median == Median(sorted)
        variance == Variance(lat)
    IN  [ avg_latency_ms |-> avg,
          median_latency_ms |-> median,
          min_latency_ms |-> Min(lat),
          max_latency_ms |-> Max(lat),
          std_dev_ms |-> [ squared |-> variance ],
          p95_latency_ms |-> Percentile(sorted, 95),
          p99_latency_ms |-> Percentile(sorted, 99),
          spike_analysis |-> CalculateSpikeStatistics(lat, avg, median, variance) ]

DistributionKeys ==
    { "avg_latency_ms", "median_latency_ms", "min_latency_ms", "max_latency_ms",
      "std_dev_ms", "p95_latency_ms", "p99_latency_ms", "spike_analysis" }

MonitoringStartedNow(started, clock) == clock
MonitoringStarted(started, clock) == started

\* The summary dict of save_results, built from a non-empty self.results.
Summary(log, started, clock) ==
    LET lat == LatenciesOf(log)
        base == [ monitoring_started |-> MonitoringStarted(started, clock),
                  monitoring_ended |-> clock,
                  total_pings |-> Len(log),
                  successful_pings |-> Len(SuccessfulPings(log)),
                  failed_pings |-> Len(log) - Len(SuccessfulPings(log)),
                  success_rate |-> SuccessRate(log),
                  target |-> Target,
                  interval_seconds |-> IntervalSeconds ]
    IN  IF HasDistribution(lat) THEN base @@ Distribution(lat) ELSE base

\* if not self.results: print("No results to save."); return
NothingToSaveNever(log) == FALSE
NothingToSave(log) == log = << >>

\* output_data = {"summary": summary, "results": self.results}
OutputDataSuccessfulOnly(summary, log) ==
    [ summary |-> summary, results |-> SuccessfulPings(log) ]
OutputData(summary, log) == [ summary |-> summary, results |-> log ]

\* Every denominator save_results and calculate_spike_statistics divide by on
\* this log: len(self.results) under "if self.results", and under "if
\* latencies" n (the mean, the variance) and len(latencies) (each percentage).
Divisors(log) ==
    LET lat == LatenciesOf(log)
    IN  (IF log # << >> THEN { Len(log) } ELSE {})
        \cup (IF HasDistribution(lat) THEN { Len(lat), 2 } ELSE {})

\* ------------------------------------------------- ping_monitor.py (sibling)
\* The observation the sibling's monitor() appends for one tick.
SiblingObservation(ts, lat) ==
    IF ~IsNone(lat)
    THEN [ timestamp |-> ts, target |-> Target, latency_ms |-> lat,
           status |-> "success" ]
    ELSE [ timestamp |-> ts, target |-> Target, latency_ms |-> None,
           status |-> "timeout" ]

\* The log the sibling's loop builds from the values ping_once returned, one
\* append per tick.
SiblingLog(stamps, returned) ==
    [ j \in 1..Len(returned) |-> SiblingObservation(stamps[j], returned[j]) ]

\* The sibling's median: sorted(latencies)[len(latencies)//2], a value of
\* the list.
SiblingMedian(lat) == Sorted(lat)[(Len(lat) \div 2) + 1]

\* The summary the sibling's save_results builds from a non-empty log.
SiblingSummary(log, started, clock) ==
    LET successful_pings == SelectSeq(log, LAMBDA r : r.status = "success")
        lat == [ i \in 1..Len(successful_pings) |->
                   ValueOf(successful_pings[i].latency_ms) ]
        base == [ monitoring_started |-> started,
                  monitoring_ended |-> clock,
                  total_pings |-> Len(log),
                  successful_pings |-> Len(successful_pings),
                  failed_pings |-> Len(log) - Len(successful_pings),
                  success_rate |-> IF log # << >>
                                   THEN Frac(Len(successful_pings) * 100, Len(log))
                                   ELSE Frac(0, 1),
                  target |-> Target,
                  interval_seconds |-> IntervalSeconds ]
    IN  IF lat # << >>
        THEN base @@ [ avg_latency_ms |-> Frac(Sum(lat), Len(lat)),
                       min_latency_ms |-> Min(lat),
                       max_latency_ms |-> Max(lat),
                       median_latency_ms |-> SiblingMedian(lat) ]
        ELSE base

\* ---------------------------------------------------------- signal_handler
\* SIGINT is delivered: the handler prints and sets self.running = False, and
\* is about to call save_results.  A handler frame under it never resumes.
Signal ==
    /\ Alive
    /\ signals < MaxSignals
    /\ signals' = signals + 1
    /\ stopLen' = IF signals = 0 THEN Some(Len(results)) ELSE stopLen
    /\ stopProbes' = IF signals = 0 THEN Some(probes) ELSE stopProbes
    /\ running' = FALSE
    /\ hpc' = "save"
    /\ pending' = << >>
    /\ UNCHANGED << start_time, now, file, summaries, handed, writes, ioErrors >>
    /\ UNCHANGED mainVars

\* save_results up to the building of output_data: returns at once on an
\* empty log; a division by zero would raise through the handler.
SaveBegin ==
    /\ Alive /\ hpc = "save"
    /\ handed' = Append(handed, Len(results))
    /\ IF NothingToSave(results)
       THEN /\ hpc' = "exit"
            /\ UNCHANGED << pc, raised, summaries, pending >>
       ELSE IF 0 \in Divisors(results)
       THEN /\ raised' = "ZeroDivisionError"
            /\ pc' = "crashed"
            /\ hpc' = "none"
            /\ UNCHANGED << summaries, pending >>
       ELSE /\ summaries' = Append(summaries, Summary(results, start_time, now))
            /\ pending' = << OutputData(Summary(results, start_time, now), results) >>
            /\ hpc' = "write"
            /\ UNCHANGED << pc, raised >>
    /\ UNCHANGED << running, results, start_time, timestamp, latency,
                    consecutive_failures, warned, now, file, writes, ioErrors,
                    probes, sleeps, ticks >>
    /\ UNCHANGED stopVars

\* open(self.output_file, 'w') and json.dump: the document is written, or
\* IOError is caught and reported, the file left as it was (open failed) or
\* without a complete document (the write failed).
SaveWrite ==
    /\ Alive /\ hpc = "write"
    /\ writes' = writes + 1
    /\ \E outcome \in {"written", "open failed", "write failed"} :
         /\ file' = CASE outcome = "written" -> pending
                      [] outcome = "open failed" -> file
                      [] OTHER -> << >>
         /\ ioErrors' = IF outcome = "written" THEN ioErrors ELSE ioErrors + 1
    /\ hpc' = "exit"
    /\ UNCHANGED << running, start_time, now, pending, summaries, handed >>
    /\ UNCHANGED mainVars /\ UNCHANGED stopVars

\* sys.exit(0)
HandlerExit ==
    /\ Alive /\ hpc = "exit"
    /\ pc' = "exited"
    /\ hpc' = "none"
    /\ UNCHANGED << running, results, start_time, timestamp, latency,
                    consecutive_failures, warned, now, raised, probes, sleeps, ticks >>
    /\ UNCHANGED saveVars /\ UNCHANGED stopVars

\* ------------------------------------------------- save_results in floats
\* The statistics of lines 136-145 and 157-162 as the float operations the
\* code performs, for latencies with a fraction (12.3 ms).  The variance and
\* the spike analysis are the Distribution above, in exact arithmetic.
FloatSorted(s) ==
    [ i \in 1..Len(s) |->
        CHOOSE v \in { s[j] : j \in 1..Len(s) } :
            /\ Cardinality({ j \in 1..Len(s) : FloatLess(s[j], v) }) < i
            /\ i <= Cardinality({ j \in 1..Len(s) : FloatLeq(s[j], v) }) ]

FloatMin(s) ==
    CHOOSE x \in { s[i] : i \in 1..Len(s) } : \A j \in 1..Len(s) : FloatLeq(x, s[j])
FloatMax(s) ==
    CHOOSE x \in { s[i] : i \in 1..Len(s) } : \A j \in 1..Len(s) : FloatLeq(s[j], x)

\* sum(latencies): 0 + latencies[0] + latencies[1] + ..., rounded at each +
RECURSIVE FloatSum(_)
FloatSum(s) ==
    IF s = << >> THEN Zero
    ELSE LET head == FloatSum(SubSeq(s, 1, Len(s) - 1))
         IN  CHOOSE r \in { FloatAdd(head, s[Len(s)]) } : TRUE

FloatMean(s) == FloatDivInt(FloatSum(s), Len(s))

FloatMedian(sorted) ==
    LET n == Len(sorted)
    IN  IF n % 2 = 1 THEN sorted[(n \div 2) + 1]
        ELSE FloatDivInt(FloatAdd(sorted[n \div 2], sorted[(n \div 2) + 1]), 2)

FloatDistribution(lat) ==
    LET sorted == FloatSorted(lat)
    IN  [ avg_latency_ms |-> FloatMean(lat),
          median_latency_ms |-> FloatMedian(sorted),
          min_latency_ms |-> FloatMin(lat),
          max_latency_ms |-> FloatMax(lat),
          p95_latency_ms |-> Percentile(sorted, 95),
          p99_latency_ms |-> Percentile(sorted, 99) ]

FloatSummary(log, started, clock) ==
    LET lat == LatenciesOf(log)
        base == [ monitoring_started |-> MonitoringStarted(started, clock),
                  monitoring_ended |-> clock,
                  total_pings |-> Len(log),
                  successful_pings |-> Len(SuccessfulPings(log)),
                  failed_pings |-> Len(log) - Len(SuccessfulPings(log)),
                  success_rate |-> SuccessRate(log),
                  target |-> Target,
                  interval_seconds |-> IntervalSeconds ]
    IN  IF HasDistribution(lat) THEN base @@ FloatDistribution(lat) ELSE base

\* save_results up to the building of output_data, on a log of floats.
SaveBeginFloat ==
    /\ Alive /\ hpc = "save"
    /\ handed' = Append(handed, Len(results))
    /\ IF NothingToSave(results)
       THEN /\ hpc' = "exit"
            /\ UNCHANGED << pc, raised, summaries, pending >>
       ELSE IF 0 \in Divisors(results)
       THEN /\ raised' = "ZeroDivisionError"
            /\ pc' = "crashed"
            /\ hpc' = "none"
            /\ UNCHANGED << summaries, pending >>
       ELSE \E summary \in { FloatSummary(results, start_time, now) } :
            /\ summaries' = Append(summaries, summary)
            /\ pending' = << OutputData(summary, results) >>
            /\ hpc' = "write"
            /\ UNCHANGED << pc, raised >>
    /\ UNCHANGED << running, results, start_time, timestamp, latency,
                    consecutive_failures, warned, now, file, writes, ioErrors,
                    probes, sleeps, ticks >>
    /\ UNCHANGED stopVars

\* ---------------------------------------------------------- specifications
\* PingMonitor.__init__ and the entry of monitor().
Init ==
    /\ pc = "check"
    /\ running = TRUE
    /\ results = << >>
    /\ start_time = 0
    /\ timestamp = 0
    /\ latency = None
    /\ consecutive_failures = 0
    /\ warned = FALSE
    /\ now = 0
    /\ hpc = "none"
    /\ pending = << >>
    /\ raised = "none"
    /\ file = << >>
    /\ summaries = << >>
    /\ handed = << >>
    /\ writes = 0
    /\ ioErrors = 0
    /\ signals = 0
    /\ stopLen = None
    /\ stopProbes = None
    /\ probes = 0
    /\ sleeps = 0
    /\ ticks = 0

Next ==
    \/ LoopCheck
    \/ ProbeReturn
    \/ Record
    \/ SleepDone
    \/ ClockTick
    \/ Signal
    \/ SaveBegin
    \/ SaveWrite
    \/ HandlerExit

Spec == Init /\ [][Next]_vars

\* The finalization alone, from the sleep of a run whose probes all succeeded:
\* a block of equal low latencies (none, or MaxLow of them), then up to
\* MaxTail high ones, at most one of them higher than the others.
Lows(l) == [ i \in 1..l |-> 1 ]
Highs(k, p) == [ i \in 1..k |-> IF i = p THEN 70 ELSE 60 ]

AnalysedLatencies ==
    { Lows(l) \o Highs(k, p) : l \in {0, MaxLow}, k \in 1..MaxTail, p \in 0..MaxTail }

LogOf(lat) == [ i \in 1..Len(lat) |-> Observation(i, Some(lat[i])) ]

InitAnalysis ==
    /\ results \in { LogOf(lat) : lat \in AnalysedLatencies }
    /\ pc = "sleep"
    /\ running = TRUE
    /\ start_time = 0
    /\ timestamp = Len(results)
    /\ latency = results[Len(results)].latency_ms
    /\ consecutive_failures = 0
    /\ warned = FALSE
    /\ now = Len(results)
    /\ hpc = "none"
    /\ pending = << >>
    /\ raised = "none"
    /\ file = << >>
    /\ summaries = << >>
    /\ handed = << >>
    /\ writes = 0
    /\ ioErrors = 0
    /\ signals = 0
    /\ stopLen = None
    /\ stopProbes = None
    /\ probes = Len(results)
    /\ sleeps = Len(results)
    /\ ticks = Len(results) - 1

NextAnalysis ==
    \/ Signal
    \/ SaveBegin
    \/ SaveWrite
    \/ HandlerExit

SpecAnalysis == InitAnalysis /\ [][NextAnalysis]_vars

\* The finalization alone, from the sleep of a run with any of these logs:
\* every log of at most MaxShort ticks whose probes timed out or returned a
\* latency at or next to an edge of the quality buckets; the logs of
\* InitAnalysis; and four logs of successes: the two examples of the
\* specification, eleven equal values after a higher one, and a log of 62 with
\* eleven values beyond two standard deviations, the first of them alone
\* beyond three.
ShortOutcomes == { None, Some(20), Some(50), Some(100), Some(200), Some(201) }

ShortLogOutcomes == UNION { [ 1..n -> ShortOutcomes ] : n \in 1..MaxShort }

ExampleLatencies ==
    { << 10, 20, 30, 40 >>,
      << 10, 12, 11, 13, 12, 200, 11, 10, 205, 12 >>,
      << 150 >> \o [ i \in 1..51 |-> 0 ] \o [ i \in 1..10 |-> 100 ] }

LogFrom(outcomes) == [ i \in 1..Len(outcomes) |-> Observation(i, outcomes[i]) ]

StatsLogs ==
    { LogFrom(o) : o \in ShortLogOutcomes }
    \cup { LogOf(lat) : lat \in AnalysedLatencies \cup ExampleLatencies }

RECURSIVE TrailingTimeouts(_)
TrailingTimeouts(log) ==
    IF log = << >> \/ log[Len(log)].status # "timeout" THEN 0
    ELSE 1 + TrailingTimeouts(SubSeq(log, 1, Len(log) - 1))

InitStats ==
    /\ results \in StatsLogs
    /\ pc = "sleep"
    /\ running = TRUE
    /\ start_time = 0
    /\ timestamp = Len(results)
    /\ latency = results[Len(results)].latency_ms
    /\ consecutive_failures = TrailingTimeouts(results)
    /\ warned = FALSE
    /\ now = Len(results)
    /\ hpc = "none"
    /\ pending = << >>
    /\ raised = "none"
    /\ file = << >>
    /\ summaries = << >>
    /\ handed = << >>
    /\ writes = 0
    /\ ioErrors = 0
    /\ signals = 0
    /\ stopLen = None
    /\ stopProbes = None
    /\ probes = Len(results)
    /\ sleeps = Len(results)
    /\ ticks = Len(results) - 1

SpecStats == InitStats /\ [][NextAnalysis]_vars

\* Logs of up to MaxFloatLog ticks whose pings printed times with a fraction,
\* stopped by SIGINT during the sleep of the last tick.
FloatCaptures ==
    { << "1", "2", ".", "3" >>,    \* "time=12.3 ms"
      << "0", ".", "7" >>,         \* "time=0.7 ms"
      << "2", "0" >> }             \* "time=20 ms"

FloatOutcomes == { None } \cup { Some(FloatLiteral(c)) : c \in FloatCaptures }

FloatLogs ==
    { LogFrom(o) : o \in UNION { [ 1..n -> FloatOutcomes ] : n \in 1..MaxFloatLog } }

InitFloat ==
    /\ results \in FloatLogs
    /\ pc = "sleep"
    /\ running = TRUE
    /\ start_time = 0
    /\ timestamp = Len(results)
    /\ latency = results[Len(results)].latency_ms
    /\ consecutive_failures = TrailingTimeouts(results)
    /\ warned = FALSE
    /\ now = Len(results)
    /\ hpc = "none"
    /\ pending = << >>
    /\ raised = "none"
    /\ file = << >>
    /\ summaries = << >>
    /\ handed = << >>
    /\ writes = 0
    /\ ioErrors = 0
    /\ signals = 0
    /\ stopLen = None
    /\ stopProbes = None
    /\ probes = Len(results)
    /\ sleeps = Len(results)
    /\ ticks = Len(results) - 1

NextFloat ==
    \/ Signal
    \/ SaveBeginFloat
    \/ SaveWrite
    \/ HandlerExit

SpecFloat == InitFloat /\ [][NextFloat]_vars

\* ------------------------------------------------------------------ claims
Stopped == stopLen # None
Finished == pc = "exited"

CountStatus(log, status) ==
    Cardinality({ i \in 1..Len(log) : log[i].status = status })

\* C1: every outcome of a probe call ends the tick with one appended
\* observation and the loop goes on; no probe failure leaves ping_once or
\* ends the loop.  (As the spec states it: the code lets OSError and
\* ValueError through.)
C1_NoProbeFailureEscapes == pc # "crashed" /\ raised = "none"

\* C2: in any run save_results is entered at most once, a second SIGINT
\* during the first handler included.  (As the spec states it: the handler
\* re-enters.)
C2_SaveResultsAtMostOnce == Len(handed) <= 1

\* C3, as the spec states it: once the stop signal has come with k
\* observations appended, no probe is started, every save_results is handed
\* exactly those k observations, and the persisted results list has length k.
C3_PersistedLogHasLengthK ==
    Stopped =>
        /\ probes = ValueOf(stopProbes)
        /\ Len(results) = ValueOf(stopLen)
        /\ \A i \in 1..Len(handed) : handed[i] = ValueOf(stopLen)
        /\ file # << >> => Len(file[1].results) = ValueOf(stopLen)
        /\ (Finished /\ ioErrors = 0) => file # << >>

\* C3, amended: the same for k >= 1; for k = 0 nothing is written at all.
C3_PersistedLogHasLengthKUnlessEmpty ==
    Stopped =>
        /\ probes = ValueOf(stopProbes)
        /\ Len(results) = ValueOf(stopLen)
        /\ \A i \in 1..Len(handed) : handed[i] = ValueOf(stopLen)
        /\ file # << >> => /\ Len(file[1].results) = ValueOf(stopLen)
                           /\ file[1].results = results
        /\ (Finished /\ ioErrors = 0 /\ ValueOf(stopLen) >= 1) => file # << >>
        /\ ValueOf(stopLen) = 0 => file = << >> /\ writes = 0

C3_Witness ==
    /\ Finished
    /\ stopLen = Some(2)
    /\ file # << >>
    /\ Len(file[1].results) = 2
    /\ \E i \in 1..2 : results[i].status = "timeout"

\* C4: the log holds one observation for every tick that has reached its
\* sleep, none skipped or merged (so it equals the completed ticks at every
\* tick boundary, and is one ahead during a sleep), and an observation has
\* status success iff its latency_ms is present and non-negative, status
\* timeout iff it is None.
C4_OneObservationPerTick ==
    /\ Len(results) = sleeps
    /\ ticks <= Len(results) /\ Len(results) <= ticks + 1
    /\ (pc = "check" /\ ~Stopped) => Len(results) = ticks
    /\ Len(results) <= probes /\ probes <= Len(results) + 1
    /\ \A i \in 1..Len(results) :
         /\ results[i].status \in {"success", "timeout"}
         /\ results[i].status = "success"
              <=> (~IsNone(results[i].latency_ms)
                   /\ ValueOf(results[i].latency_ms) >= 0)
         /\ results[i].status = "timeout" <=> IsNone(results[i].latency_ms)

C4_Witness ==
    /\ pc = "check"
    /\ ticks = 2
    /\ Len(results) = 2
    /\ results[1].latency_ms = Some(0) /\ results[1].status = "success"
    /\ results[2].status = "timeout"

\* C5, as the spec states it: a run stopped on an empty log ends with a
\* RunSummary whose counts are all zero, whose success_rate is 0 and which
\* has no distribution or spike field.
C5_EmptyLogIsSummarized ==
    (Finished /\ stopLen = Some(0)) =>
        /\ Len(summaries) >= 1
        /\ \A i \in 1..Len(summaries) :
             /\ summaries[i].total_pings = 0
             /\ summaries[i].successful_pings = 0
             /\ summaries[i].failed_pings = 0
             /\ summaries[i].success_rate.num = 0
             /\ DOMAIN summaries[i] \cap DistributionKeys = {}

\* C5, amended: a run stopped on an empty log builds no summary and writes
\* nothing; save_results returns at once, nothing is raised and the process
\* exits.
C5_EmptyLogIsSkipped ==
    stopLen = Some(0) =>
        /\ summaries = << >>
        /\ pending = << >>
        /\ file = << >> /\ writes = 0 /\ ioErrors = 0
        /\ raised = "none" /\ pc # "crashed"
        /\ hpc \in {"save", "exit", "none"}

C5_Witness ==
    /\ Finished
    /\ stopLen = Some(0)
    /\ handed # << >>
    /\ \A i \in 1..Len(handed) : handed[i] = 0

\* Every fraction of a summary
SummaryFractions(s) ==
    { s.success_rate }
    \cup (IF "spike_analysis" \in DOMAIN s
          THEN { s.avg_latency_ms, s.median_latency_ms, s.std_dev_ms.squared }
               \cup { s.spike_analysis[k].percentage :
                        k \in { ThresholdKeys[i] : i \in 1..Len(Thresholds) } }
               \cup { s.spike_analysis.statistical_outliers[k].percentage :
                        k \in DOMAIN s.spike_analysis.statistical_outliers }
               \cup { s.spike_analysis.video_conferencing_quality[k].percentage :
                        k \in DOMAIN s.spike_analysis.video_conferencing_quality }
          ELSE {})

\* C6: on no log does save_results or calculate_spike_statistics divide by
\* zero: nothing raises ZeroDivisionError, every fraction of every summary has
\* a non-zero denominator, the percentages exist only when n > 0, and the
\* success_rate expression is 0 on an empty log.
C6_NoDivisionByZero ==
    /\ raised # "ZeroDivisionError"
    /\ hpc = "save" => 0 \notin Divisors(results)
    /\ SuccessRate(<< >>).num = 0
    /\ \A i \in 1..Len(summaries) :
         /\ \A f \in SummaryFractions(summaries[i]) : f.den > 0
         /\ "spike_analysis" \in DOMAIN summaries[i]
              => summaries[i].successful_pings > 0

C6_Witness ==
    /\ Finished
    /\ Len(results) = 2
    /\ Len(summaries) >= 1
    /\ summaries[1].successful_pings = 0
    /\ summaries[1].success_rate = Frac(0, 2)

\* C7: in every summary total_pings is the length of the log, successful_pings
\* the number of success observations, failed_pings the number of timeout
\* observations, and successful_pings + failed_pings = total_pings.
C7_CountsAddUp ==
    \A i \in 1..Len(summaries) :
        /\ summaries[i].total_pings = Len(results)
        /\ summaries[i].successful_pings = CountStatus(results, "success")
        /\ summaries[i].failed_pings = CountStatus(results, "timeout")
        /\ summaries[i].successful_pings + summaries[i].failed_pings
             = summaries[i].total_pings

C7_Witness ==
    /\ Len(summaries) >= 1
    /\ summaries[1].successful_pings = 1
    /\ summaries[1].failed_pings = 1
    /\ \E i \in 1..Len(results) : results[i].latency_ms = Some(0)

\* C8: in the summary of a non-empty log the distribution statistics and
\* spike_analysis are all present if successful_pings > 0 and all absent
\* otherwise; a log of timeouts only gives successful_pings = 0, success_rate
\* 0 and no distribution field.
C8_DistributionIffSuccessful ==
    \A i \in 1..Len(summaries) :
        LET s == summaries[i] IN
        /\ s.total_pings >= 1
        /\ s.successful_pings > 0 => DistributionKeys \subseteq DOMAIN s
        /\ s.successful_pings = 0 =>
             /\ DOMAIN s \cap DistributionKeys = {}
             /\ s.success_rate.num = 0

C8_Witness ==
    /\ Len(summaries) >= 1
    /\ Len(results) = 2
    /\ \A i \in 1..2 : results[i].status = "timeout"
    /\ DOMAIN summaries[1] \cap DistributionKeys = {}

\* C9, as the spec states it: two summaries built from the same frozen log
\* are identical, run bounds included.
C9_SummariesIdentical ==
    \A i, j \in 1..Len(summaries) : summaries[i] = summaries[j]

\* C9, amended: two summaries built from the same frozen log have the same
\* fields and agree on every one but monitoring_ended, which is the time of
\* each call and never goes back.
C9_SummariesAgreeButEnded ==
    \A i, j \in 1..Len(summaries) :
        /\ DOMAIN summaries[i] = DOMAIN summaries[j]
        /\ \A k \in DOMAIN summaries[i] \ {"monitoring_ended"} :
             summaries[i][k] = summaries[j][k]
        /\ summaries[i].monitoring_started = start_time
        /\ i <= j => summaries[i].monitoring_ended <= summaries[j].monitoring_ended

C9_Witness ==
    /\ Len(summaries) = 2
    /\ summaries[1].monitoring_ended < summaries[2].monitoring_ended
    /\ summaries[1].successful_pings >= 1

\* The entries of the spike and outlier methods of a summary, each with the
\* latencies exceeding its threshold, in the order of the log.
MethodEntries(s, lat) ==
    { [ entry |-> s.spike_analysis[ThresholdKeys[i]],
        exceeding |-> SpikesAbove(lat, Thresholds[i]) ] : i \in 1..Len(Thresholds) }
    \cup
    { [ entry |-> s.spike_analysis.statistical_outliers.two_std_dev,
        exceeding |-> SelectSeq(lat, LAMBDA x : AboveSigma(x, 2, lat)) ],
      [ entry |-> s.spike_analysis.statistical_outliers.three_std_dev,
        exceeding |-> SelectSeq(lat, LAMBDA x : AboveSigma(x, 3, lat)) ],
      [ entry |-> s.spike_analysis.statistical_outliers.iqr_method,
        exceeding |-> SelectSeq(lat, LAMBDA x :
            AboveFrac(x, s.spike_analysis.statistical_outliers.iqr_method.threshold_ms)) ],
      [ entry |-> s.spike_analysis.statistical_outliers.median_3x,
        exceeding |-> SelectSeq(lat, LAMBDA x :
            AboveFrac(x, s.spike_analysis.statistical_outliers.median_3x.threshold_ms)) ] }

LastOf(s, k) == SubSeq(s, Len(s) - k + 1, Len(s))

\* C10, as the spec states it: for every method, values is the full list of
\* exceeding latencies when they are at most 10, else the last 10 of them
\* taken in ascending order (the 10 largest); count is their full number.
C10_ValuesAreTheLargest ==
    \A i \in 1..Len(summaries) :
        "spike_analysis" \in DOMAIN summaries[i] =>
            \A m \in MethodEntries(summaries[i], LatenciesOf(results)) :
                /\ m.entry.count = Len(m.exceeding)
                /\ m.entry.values =
                     IF Len(m.exceeding) <= KeepLast THEN m.exceeding
                     ELSE LastOf(Sorted(m.exceeding), KeepLast)

\* C10, amended: for every method, values is the full list of exceeding
\* latencies when they are at most 10, else the last 10 of them in the order
\* of the log (the 10 most recent); count is their full number.
C10_ValuesAreTheMostRecent ==
    \A i \in 1..Len(summaries) :
        "spike_analysis" \in DOMAIN summaries[i] =>
            \A m \in MethodEntries(summaries[i], LatenciesOf(results)) :
                LET kept == IF m.entry.count <= KeepLast THEN m.entry.count
                            ELSE KeepLast
                IN  /\ m.entry.count = Len(m.exceeding)
                    /\ Len(m.entry.values) = kept
                    /\ \A j \in 1..kept :
                         m.entry.values[j] = m.exceeding[m.entry.count - kept + j]

C10_Witness ==
    /\ Len(summaries) >= 1
    /\ LET sa == summaries[1].spike_analysis IN
       /\ sa.spikes_above_50ms.count > KeepLast
       /\ Len(sa.spikes_above_50ms.values) = KeepLast
       /\ sa.spikes_above_50ms.values # LastOf(Sorted(LatenciesOf(results)), KeepLast)
       /\ sa.statistical_outliers.median_3x.count > KeepLast
       /\ Len(sa.statistical_outliers.median_3x.values) = KeepLast

\* The value v stands at place k (from 0) of the latencies in ascending
\* order: it is one of them, at most k are below it and at most n - 1 - k
\* above it.
IsOrderStat(lat, v, k) ==
    /\ \E j \in 1..Len(lat) : lat[j] = v
    /\ Cardinality({ j \in 1..Len(lat) : lat[j] < v }) <= k
    /\ Cardinality({ j \in 1..Len(lat) : lat[j] > v }) <= Len(lat) - 1 - k

ValuesOf(seq) == { seq[j] : j \in 1..Len(seq) }

Distributions == { i \in 1..Len(summaries) : "spike_analysis" \in DOMAIN summaries[i] }

\* C11: with n >= 1 successful latencies the median is the middle one of them
\* in ascending order when n is odd and the mean of the two central ones when
\* n is even, whatever the order they were appended in; [10,20,30,40] gives 25.
C11_MedianIsMiddle ==
    \A i \in Distributions :
        LET lat == LatenciesOf(results)
            n == Len(lat)
            m == summaries[i].median_latency_ms
        IN  /\ n >= 1
            /\ n % 2 = 1 => m.den = 1 /\ IsOrderStat(lat, m.num, n \div 2)
            /\ n % 2 = 0 =>
                 \E a, b \in ValuesOf(lat) :
                     /\ IsOrderStat(lat, a, (n \div 2) - 1)
                     /\ IsOrderStat(lat, b, n \div 2)
                     /\ 2 * m.num = (a + b) * m.den
            /\ ValuesOf(lat) = { 10, 20, 30, 40 } /\ n = 4 => m.num = 25 * m.den

C11_Witness ==
    /\ 1 \in Distributions
    /\ LatenciesOf(results) = << 200, 20 >>
    /\ summaries[1].median_latency_ms = Frac(220, 2)

\* C12: with n >= 1 each of p95 and p99 is the latency at place floor(p * n)
\* (from 0) of the ascending order, and that place is at most n - 1; with
\* n = 1 both are the single value.
C12_PercentileIsNearestRank ==
    \A i \in Distributions :
        LET lat == LatenciesOf(results)
            n == Len(lat)
        IN  /\ (95 * n) \div 100 <= n - 1
            /\ (99 * n) \div 100 <= n - 1
            /\ IsOrderStat(lat, summaries[i].p95_latency_ms, (95 * n) \div 100)
            /\ IsOrderStat(lat, summaries[i].p99_latency_ms, (99 * n) \div 100)
            /\ n = 1 => /\ summaries[i].p95_latency_ms = lat[1]
                        /\ summaries[i].p99_latency_ms = lat[1]

C12_Witness ==
    /\ 1 \in Distributions
    /\ Len(LatenciesOf(results)) >= 20
    /\ summaries[1].p95_latency_ms < summaries[1].p99_latency_ms
    /\ summaries[1].p99_latency_ms = summaries[1].max_latency_ms

BucketOf(x) ==
    IF x <= 20 THEN "excellent_0_20ms"
    ELSE IF x <= 50 THEN "good_20_50ms"
    ELSE IF x <= 100 THEN "acceptable_50_100ms"
    ELSE IF x <= 200 THEN "poor_100_200ms"
    ELSE "very_poor_above_200ms"

\* C13: each successful latency is counted in exactly one of the five quality
\* buckets, 20, 50, 100 and 200 in the bucket they close, so the five counts
\* add up to n.
C13_BucketsPartition ==
    \A i \in Distributions :
        LET lat == LatenciesOf(results)
            q == summaries[i].spike_analysis.video_conferencing_quality
        IN  /\ \A k \in DOMAIN q :
                 q[k].count = Cardinality({ j \in 1..Len(lat) : BucketOf(lat[j]) = k })
            /\ q.excellent_0_20ms.count + q.good_20_50ms.count
                 + q.acceptable_50_100ms.count + q.poor_100_200ms.count
                 + q.very_poor_above_200ms.count = Len(lat)

C13_Witness ==
    /\ 1 \in Distributions
    /\ LatenciesOf(results) = << 50, 100, 200 >>
    /\ LET q == summaries[1].spike_analysis.video_conferencing_quality IN
       /\ q.good_20_50ms.count = 1
       /\ q.acceptable_50_100ms.count = 1
       /\ q.poor_100_200ms.count = 1

\* v > avg + sigmas * std_dev, read off the threshold of a sigma entry, whose
\* variance has the square of the mean's denominator for denominator
ExceedsSigma(v, t) ==
    LET d == v * t.avg.den - t.avg.num
    IN  /\ t.variance.den = t.avg.den * t.avg.den
        /\ d > 0
        /\ d * d > t.sigmas * t.sigmas * t.variance.num

\* C14, as the spec states it: every value reported as a three-sigma outlier
\* is also reported as a two-sigma outlier (so count_3sd <= count_2sd), and
\* every value reported as an IQR outlier is above Q3 = sorted[3n//4].
C14_ReportedOutliersContained ==
    \A i \in Distributions :
        LET lat == LatenciesOf(results)
            o == summaries[i].spike_analysis.statistical_outliers
        IN  /\ ValuesOf(o.three_std_dev.values) \subseteq ValuesOf(o.two_std_dev.values)
            /\ o.three_std_dev.count <= o.two_std_dev.count
            /\ \A v \in ValuesOf(o.iqr_method.values) :
                 \E q3 \in ValuesOf(lat) :
                     IsOrderStat(lat, q3, (3 * Len(lat)) \div 4) /\ v > q3

\* C14, amended: every value reported as a three-sigma outlier is beyond the
\* two-sigma threshold and count_3sd <= count_2sd; it is in the reported
\* two-sigma values whenever these are not cut to the last 10; and every value
\* reported as an IQR outlier is above Q3 = sorted[3n//4].
C14_OutliersContainedUnlessCut ==
    \A i \in Distributions :
        LET lat == LatenciesOf(results)
            o == summaries[i].spike_analysis.statistical_outliers
        IN  /\ \A v \in ValuesOf(o.three_std_dev.values) :
                 ExceedsSigma(v, o.two_std_dev.threshold_ms)
            /\ o.three_std_dev.count <= o.two_std_dev.count
            /\ o.two_std_dev.count <= KeepLast =>
                 ValuesOf(o.three_std_dev.values) \subseteq ValuesOf(o.two_std_dev.values)
            /\ \A v \in ValuesOf(o.iqr_method.values) :
                 \E q3 \in ValuesOf(lat) :
                     IsOrderStat(lat, q3, (3 * Len(lat)) \div 4) /\ v > q3

C14_Witness ==
    /\ 1 \in Distributions
    /\ LET o == summaries[1].spike_analysis.statistical_outliers IN
       /\ o.two_std_dev.count = KeepLast + 1
       /\ o.three_std_dev.values = << 150 >>
       /\ 150 \notin ValuesOf(o.two_std_dev.values)
       /\ o.iqr_method.count >= 1

\* The fixed-threshold part of C19: each count is the number of successful
\* latencies strictly above its threshold, each percentage is count / n * 100
\* over the successful observations.
FixedThresholdsStrict(i) ==
    LET sa == summaries[i].spike_analysis
        ok == { j \in 1..Len(results) : results[j].status = "success" }
    IN  \A t \in 1..Len(Thresholds) :
            LET entry == sa[ThresholdKeys[t]] IN
            /\ entry.count =
                 Cardinality({ j \in ok :
                     results[j].latency_ms[1] > Thresholds[t] })
            /\ entry.percentage.den # 0
            /\ entry.percentage.num * Cardinality(ok)
                 = entry.count * 100 * entry.percentage.den

IsScenarioLog == LatenciesOf(results) = << 10, 12, 11, 13, 12, 200, 11, 10, 205, 12 >>

\* C19: for each fixed threshold T the count is the number of successful
\* latencies strictly above T (one equal to T is no spike) and the percentage
\* is count / n * 100 with n the successful observations, timeouts left out;
\* [10,12,11,13,12,200,11,10,205,12] gives spikes_above_100ms 2 and a
\* very-poor count of 2.
C19_FixedThresholdsStrict ==
    \A i \in Distributions :
        /\ FixedThresholdsStrict(i)
        /\ IsScenarioLog =>
             LET sa == summaries[i].spike_analysis IN
             /\ sa.spikes_above_100ms.count = 2
             /\ sa.video_conferencing_quality.very_poor_above_200ms.count = 2

\* C19 as the code has it: the same counts and percentages, and on the example
\* spikes_above_100ms is 2 (200 and 205) while the very-poor bucket holds only
\* 205, 200 falling in the poor bucket (100, 200].
C19_FixedThresholdsStrictOnePoor ==
    \A i \in Distributions :
        /\ FixedThresholdsStrict(i)
        /\ IsScenarioLog =>
             LET sa == summaries[i].spike_analysis IN
             /\ sa.spikes_above_100ms.count = 2
             /\ sa.spikes_above_100ms.values = << 200, 205 >>
             /\ sa.spikes_above_200ms.count = 1
             /\ sa.video_conferencing_quality.very_poor_above_200ms.count = 1
             /\ sa.video_conferencing_quality.poor_100_200ms.count = 1

C19_Witness ==
    /\ 1 \in Distributions
    /\ Len(results) = 3
    /\ results[1].status = "timeout"
    /\ results[2].latency_ms = Some(100)
    /\ results[3].latency_ms = Some(201)
    /\ summaries[1].spike_analysis.spikes_above_100ms.count = 1
    /\ summaries[1].spike_analysis.spikes_above_100ms.percentage = Frac(100, 2)

\* C15: once writing the report has failed with an I/O error, the failure is
\* reported, the write is not attempted a second time, the observation log
\* stays as it is, and the process exits without going back to the sampling
\* loop.
C15_FailedWriteIsFinal ==
    [][ioErrors >= 1 =>
          /\ writes' = writes
          /\ results' = results
          /\ probes' = probes /\ sleeps' = sleeps /\ ticks' = ticks
          /\ pc' \in { pc, "exited" }]_vars

\* C16: after every completed tick the consecutive-failure counter is the
\* number of timeouts ending the log (0 after a success); the warning is
\* printed on a tick iff that tick was a timeout and the counter is then at
\* least 5; printing it neither stops the loop nor changes the log.
C16_FailureCounterAndWarning ==
    /\ [](/\ consecutive_failures = TrailingTimeouts(results)
          /\ warned <=> /\ results # << >>
                        /\ results[Len(results)].status = "timeout"
                        /\ consecutive_failures >= WarnThreshold
          /\ warned /\ signals = 0 =>
                /\ running
                /\ pc \in { "sleep", "check", "probe", "record", "crashed" }
                /\ pc = "crashed" => raised # "none")
    /\ [][results' # results =>
            /\ results' = Append(results, Observation(timestamp, latency))
            /\ warned' => pc' = "sleep" /\ running' = running]_vars

\* The warning was printed on the fifth timeout and the loop went on to a
\* sixth tick, which printed it again.
C16_Witness ==
    /\ Len(results) = WarnThreshold + 1
    /\ consecutive_failures = WarnThreshold + 1
    /\ warned
    /\ pc = "sleep"

\* C17: a tick is timestamp, one probe call, one append, one sleep, in that
\* order; the sleep follows the append whatever the observation; the probe of
\* the next tick starts only after the sleep of this one (no retry in a tick).
C17_TickStepsInOrder ==
    [][/\ probes' # probes =>
            /\ probes' = probes + 1
            /\ timestamp' = now
            /\ Len(results) = probes /\ sleeps = probes /\ ticks = probes
            /\ results' = results
       /\ results' # results =>
            /\ Len(results') = probes
            /\ results'[probes].timestamp = timestamp
            /\ results'[probes].latency_ms = latency
            /\ sleeps = probes - 1
            /\ sleeps' = probes
            /\ pc' = "sleep"
       /\ sleeps' # sleeps => Len(results') = Len(results) + 1
       /\ ticks' # ticks => ticks' = sleeps /\ sleeps' = sleeps /\ pc = "sleep"]_vars

\* Two ticks done, the first a timeout and the second a success, each
\* followed by its sleep.
C17_Witness ==
    /\ Len(results) = 2
    /\ results[1].status = "timeout"
    /\ results[2].status = "success"
    /\ probes = 2 /\ sleeps = 2 /\ ticks = 2
    /\ pc = "check"

\* C18: the log is append-only, an earlier log being a prefix of every later
\* one; once save_results has been entered no observation is appended, and
\* save_results leaves the log as it is.
C18_LogIsAppendOnly ==
    [][/\ Len(results') >= Len(results)
       /\ SubSeq(results', 1, Len(results)) = results
       /\ (handed # << >> \/ handed' # handed) => results' = results
       /\ (hpc # "none" \/ hpc' # "none") => results' = results]_vars

C18_Witness ==
    /\ Len(results) = 2
    /\ results[1] # results[2]
    /\ Len(handed) = 2
    /\ file # << >>
    /\ file[1].results = results
    /\ pc = "exited"

\* Whether fraction f and fraction g are the same number.
SameNumber(f, g) == f.den # 0 /\ g.den # 0 /\ f.num * g.den = g.num * f.den

\* C20: from the same values returned by the probes and the same stop point,
\* monitor.py and ping_monitor.py build the same log and report equal values
\* for every summary field both produce (the counts, success_rate, and the
\* average, minimum, maximum and median latency), for odd and even numbers of
\* successful samples.
C20_SiblingsAgree ==
    \A i \in 1..Len(summaries) :
        LET mine == summaries[i]
            stamps == [ j \in 1..Len(results) |-> results[j].timestamp ]
            returned == [ j \in 1..Len(results) |-> results[j].latency_ms ]
            theirs == SiblingSummary(SiblingLog(stamps, returned), start_time,
                                     mine.monitoring_ended)
        IN  /\ SiblingLog(stamps, returned) = results
            /\ theirs.total_pings = mine.total_pings
            /\ theirs.successful_pings = mine.successful_pings
            /\ theirs.failed_pings = mine.failed_pings
            /\ SameNumber(theirs.success_rate, mine.success_rate)
            /\ ("avg_latency_ms" \in DOMAIN theirs) <=> ("avg_latency_ms" \in DOMAIN mine)
            /\ "avg_latency_ms" \in DOMAIN mine =>
                 /\ SameNumber(theirs.avg_latency_ms, mine.avg_latency_ms)
                 /\ theirs.min_latency_ms = mine.min_latency_ms
                 /\ theirs.max_latency_ms = mine.max_latency_ms
                 /\ SameNumber(Frac(theirs.median_latency_ms, 1),
                               mine.median_latency_ms)

FloatSummaries == { i \in 1..Len(summaries) : "avg_latency_ms" \in DOMAIN summaries[i] }

\* C21: for every log with a successful latency the reported statistics are
\* ordered min <= median <= p95 <= p99 <= max and min <= mean <= max, and min,
\* max, p95 and p99 are each a latency of the log.
C21_StatisticsOrdered ==
    \A i \in FloatSummaries :
        LET t == summaries[i]
            present == { results[j].latency_ms[1] :
                           j \in { k \in 1..Len(results) : results[k].status = "success" } }
        IN  /\ FloatLeq(t.min_latency_ms, t.median_latency_ms)
            /\ FloatLeq(t.median_latency_ms, t.p95_latency_ms)
            /\ FloatLeq(t.p95_latency_ms, t.p99_latency_ms)
            /\ FloatLeq(t.p99_latency_ms, t.max_latency_ms)
            /\ FloatLeq(t.min_latency_ms, t.avg_latency_ms)
            /\ FloatLeq(t.avg_latency_ms, t.max_latency_ms)
            /\ { t.min_latency_ms, t.max_latency_ms, t.p95_latency_ms,
                 t.p99_latency_ms } \subseteq present
====
